---------------------------- MODULE Spec2Model ----------------------------
(***************************************************************************)
(* A model of owslib/wps.py: one WPSExecution (a WPS job seen from the     *)
(* client), the response documents a server can send it, and the           *)
(* operations of the class: buildRequest, checkStatus, parseResponse,      *)
(* getStatus, isComplete, isSucceded, isNotComplete, getOutput; the        *)
(* execute() of WebProcessingService that creates such an object; and the  *)
(* Input and Output objects built from the elements of a document; and    *)
(* the processes list of a WebProcessingService.                           *)
(*                                                                         *)
(* Specifications: Spec is the job polled and queried, SessionSpec the     *)
(* caller that builds requests, executes and retrieves outputs,            *)
(* DataModelSpec the constructors of the data model on their own,          *)
(* ServiceSpec the service object asked for capabilities and process       *)
(* descriptions, PollingSpec the caller that polls a submitted job until   *)
(* it is complete.                                                         *)
(*                                                                         *)
(* XML elements are records.  A tag is [ns, name]: lxml's "{ns}name", ns   *)
(* empty for an element without a namespace.  The children a lookup can    *)
(* find are sequences in document order; Element.find is "the first one,   *)
(* or nothing", so an optional child is a sequence of length 0 or 1, and   *)
(* an attribute or a field that is None in Python is the value None.       *)
(***************************************************************************)
EXTENDS Integers, Sequences, FiniteSets

VARIABLES status, statusLocation, serviceInstance, process, errors,
          dataInputs, processOutputs, processes, last

vars == <<status, statusLocation, serviceInstance, process, errors,
          dataInputs, processOutputs, processes, last>>

(* Python's None, for the fields and attributes whose values are strings. *)
None == "None"

(***************************************************************************)
(* Bounds: the lists a parse appends to are capped by the guards.  Every    *)
(* document that echoes inputs also carries outputs, so the bound on the   *)
(* outputs bounds dataInputs as well.                                      *)
(***************************************************************************)
MaxErrors == 2
MaxOutputs == 2
(* The processes list of the service is capped likewise. *)
MaxProcesses == 4

(***************************************************************************)
(* Namespaces (wps.py:20, wps.py:12) and tags.                             *)
(***************************************************************************)
WPS_NAMESPACE == "http://www.opengis.net/wps/1.0.0"
DEFAULT_OWS_NAMESPACE == "http://www.opengis.net/ows/1.1"
NoNamespace == ""

Tag(ns, name) == [ns |-> ns, name |-> name]

(* util.nspath(name, ns): the qualified tag a lookup asks for. *)
nspath(name, ns) == Tag(ns, name)

(* tag.split('}')[1]: '{ns}name' splits in two; a tag without a namespace  *)
(* splits into one piece and the index raises IndexError.                  *)
SplitHasLocal(tag) == tag.ns # NoNamespace
LocalName(tag) == tag.name

(* Element.findall(tag) over a list of children: those with that tag, in   *)
(* document order.                                                         *)
findall(children, tag) == SelectSeq(children, LAMBDA c : c.tag = tag)


(***************************************************************************)
(* The typed data model (wps.py:612-864).  An optional object-valued field *)
(* (a reference URL, the echoed process) is a sequence of length 0 or 1.   *)
(***************************************************************************)

(* WPSException.__init__: attrib.get gives None for a missing attribute;   *)
(* the text is that of the ExceptionText child, "" when there is none.     *)
WPSException(root) ==
    [code    |-> root.exceptionCode,
     locator |-> root.locator,
     text    |-> IF root.exceptionText # <<>> THEN Head(root.exceptionText) ELSE ""]

(* An Input or Output element holds, besides its qualified children, the  *)
(* children without a namespace that a description of a process gives it:  *)
(* element.children, each [tag, dataType, allowedValues, defaultValue,      *)
(* supported, default].  dataType is the DataType child's reference        *)
(* attribute split at ':' (empty when the child is missing), allowedValues *)
(* the texts of AllowedValues/Value, defaultValue the text of              *)
(* DefaultValue, supported the Supported/Format children and default the   *)
(* Default/Format child, a format being [mimeType, encoding, schema].      *)

(* getTypedValue(dataType, value) of wps_utils: the text as a value of the *)
(* declared primitive type; a tag it does not know gives the raw text.     *)
getTypedValue(dataType, value) ==
    IF dataType \in {"integer", "long"} THEN [type |-> "int", text |-> value]
    ELSE IF dataType \in {"float", "double"} THEN [type |-> "float", text |-> value]
    ELSE IF dataType = "boolean" THEN [type |-> "bool", text |-> value]
    ELSE [type |-> "str", text |-> value]

(* ComplexData.__init__ on a Format element (wps.py:617-620, 721-724). *)
ComplexData(formatElement) ==
    [mimeType |-> formatElement.mimeType, encoding |-> formatElement.encoding,
     schema |-> formatElement.schema]

(* InputOutput.__init__ (wps.py:627-641). *)
InputOutput(element) ==
    [identifier      |-> element.identifier,
     allowedValues   |-> <<>>,
     supportedValues |-> <<>>,
     defaultValue    |-> <<>>,
     dataType        |-> None]

(* The exception line 683 raises: None.get when the LiteralData child has  *)
(* no DataType, [1] out of range when the reference has no ':'.            *)
LiteralDataError(element, literalElementName) ==
    LET found == findall(element.children, Tag(NoNamespace, literalElementName))
    IN  IF found = <<>> THEN None
        ELSE IF Head(found).dataType = <<>> THEN "AttributeError"
        ELSE IF Len(Head(Head(found).dataType)) < 2 THEN "IndexError"
        ELSE None

(* _parseLiteralData (wps.py:661-688), when line 683 does not raise. *)
parseLiteralData(self, element, literalElementName) ==
    LET found == findall(element.children, Tag(NoNamespace, literalElementName))
        literalDataElement == Head(found)
        dataType == Head(literalDataElement.dataType)[2]
    IN  IF found = <<>> THEN self
        ELSE [self EXCEPT
                !.dataType = dataType,
                !.allowedValues =
                    @ \o [i \in 1..Len(literalDataElement.allowedValues) |->
                             getTypedValue(dataType, literalDataElement.allowedValues[i])],
                !.defaultValue =
                    IF literalDataElement.defaultValue # <<>>
                    THEN <<getTypedValue(dataType, Head(literalDataElement.defaultValue))>>
                    ELSE @]

(* _parseComplexData (wps.py:690-732). *)
parseComplexData(self, element, complexDataElementName) ==
    LET found == findall(element.children, Tag(NoNamespace, complexDataElementName))
        complexDataElement == Head(found)
    IN  IF found = <<>> THEN self
        ELSE [self EXCEPT
                !.dataType = "ComplexData",
                !.supportedValues =
                    @ \o [i \in 1..Len(complexDataElement.supported) |->
                             ComplexData(complexDataElement.supported[i])],
                !.defaultValue =
                    IF complexDataElement.default # <<>>
                    THEN <<ComplexData(Head(complexDataElement.default))>>
                    ELSE @]

(* Input.__init__ (wps.py:740-759): the occurrence attributes, -1 when an  *)
(* attribute is missing, then the LiteralData and the ComplexData child.   *)
Input(inputElement) ==
    LET io == parseComplexData(
                  parseLiteralData(InputOutput(inputElement), inputElement, "LiteralData"),
                  inputElement, "ComplexData")
    IN  [identifier      |-> io.identifier,
         minOccurs       |-> IF inputElement.minOccurs # <<>>
                             THEN Head(inputElement.minOccurs) ELSE -1,
         maxOccurs       |-> IF inputElement.maxOccurs # <<>>
                             THEN Head(inputElement.maxOccurs) ELSE -1,
         dataType        |-> io.dataType,
         allowedValues   |-> io.allowedValues,
         supportedValues |-> io.supportedValues,
         defaultValue    |-> io.defaultValue]

(* The fields a Reference child sets, when there is one. *)
OutputReference(outputElement) ==
    IF outputElement.reference # <<>>
    THEN [reference |-> Head(outputElement.reference).href,
          mimeType  |-> Head(outputElement.reference).mimeType]
    ELSE [reference |-> <<>>, mimeType |-> None]

(* Output.__init__ (wps.py:767-802): reference and mimeType from the       *)
(* Reference child, the LiteralData and the ComplexOutput child, then      *)
(* dataType, mimeType and data from the Data/ComplexData child, which      *)
(* overwrites the dataType set before and the mimeType the Reference gave. *)
Output(outputElement) ==
    LET r == OutputReference(outputElement)
        io == parseComplexData(
                  parseLiteralData(InputOutput(outputElement), outputElement, "LiteralData"),
                  outputElement, "ComplexOutput")
        hasComplex == /\ outputElement.data # <<>>
                      /\ Head(outputElement.data).complexData # <<>>
        cd == Head(Head(outputElement.data).complexData)
    IN  [identifier      |-> io.identifier,
         reference       |-> r.reference,
         mimeType        |-> IF hasComplex THEN cd.mimeType ELSE r.mimeType,
         dataType        |-> IF hasComplex THEN "ComplexData" ELSE io.dataType,
         data            |-> IF hasComplex THEN cd.text ELSE None,
         allowedValues   |-> io.allowedValues,
         supportedValues |-> io.supportedValues,
         defaultValue    |-> io.defaultValue]

(* One object per element, in document order: the loops that append       *)
(* WPSException(el), Input(el) and Output(el) (wps.py:577-578, 600-601,    *)
(* 607-608).                                                               *)
WPSExceptions(elements) == [i \in 1..Len(elements) |-> WPSException(elements[i])]
Inputs(elements) == [i \in 1..Len(elements) |-> Input(elements[i])]
Outputs(elements) == [i \in 1..Len(elements) |-> Output(elements[i])]

(* Process.__init__ on the element the response echoes. *)
Process(elem) == [identifier |-> elem.identifier]

(***************************************************************************)
(* WPSExecution: the object as a record, and the state after __init__.     *)
(***************************************************************************)
Self == [status          |-> status,
         statusLocation  |-> statusLocation,
         serviceInstance |-> serviceInstance,
         process         |-> process,
         errors          |-> errors,
         dataInputs      |-> dataInputs,
         processOutputs  |-> processOutputs]

WPSExecution == [status          |-> None,
                 statusLocation  |-> None,
                 serviceInstance |-> None,
                 process         |-> <<>>,
                 errors          |-> <<>>,
                 dataInputs      |-> <<>>,
                 processOutputs  |-> <<>>]

(* What a method call comes to: the object afterwards and the exception    *)
(* that left the call, None when it returned.                              *)
Returned(self) == [self |-> self, raised |-> None]
Raised(self, error) == [self |-> self, raised |-> error]

(***************************************************************************)
(* The response parser (wps.py:545-610).                                   *)
(***************************************************************************)

(* Mutant of parseExceptionReport: the status is set whatever it was. *)
parseExceptionReportAlways(self, root) ==
    [self EXCEPT
       !.status = "Exception",
       !.errors = @ \o WPSExceptions(findall(root.children,
                                        nspath("Exception", DEFAULT_OWS_NAMESPACE)))]

(* _parseExceptionReport: the status only when it is still None, then one  *)
(* WPSException per ows:Exception child.                                   *)
parseExceptionReport(self, root) ==
    [self EXCEPT
       !.status = IF @ = None THEN "Exception" ELSE @,
       !.errors = @ \o WPSExceptions(findall(root.children,
                                        nspath("Exception", DEFAULT_OWS_NAMESPACE)))]

(* wps.py:586-587: the two root attributes, None when the root has none.   *)
readAttributes(self, root) ==
    [self EXCEPT !.serviceInstance = root.serviceInstance,
                 !.statusLocation = root.statusLocation]

(* Mutant of readStatus: the status is set only when it is still None. *)
readStatusOnce(self, root) ==
    IF root.status = <<>> THEN Raised(self, "AttributeError")
    ELSE IF ~SplitHasLocal(Head(root.status).tag) THEN Raised(self, "IndexError")
    ELSE IF self.status # None THEN Returned(self)
    ELSE Returned([self EXCEPT !.status = LocalName(Head(root.status).tag)])

(* Mutant of readStatus: a status that is terminal is kept. *)
readStatusKeepTerminal(self, root) ==
    IF root.status = <<>> THEN Raised(self, "AttributeError")
    ELSE IF ~SplitHasLocal(Head(root.status).tag) THEN Raised(self, "IndexError")
    ELSE IF self.status \in {"ProcessSucceeded", "ProcessFailed", "Exception"}
    THEN Returned(self)
    ELSE Returned([self EXCEPT !.status = LocalName(Head(root.status).tag)])

(* Mutant of readStatus: a missing status child is skipped. *)
readStatusOptional(self, root) ==
    IF root.status = <<>> THEN Returned(self)
    ELSE IF ~SplitHasLocal(Head(root.status).tag) THEN Raised(self, "IndexError")
    ELSE Returned([self EXCEPT !.status = LocalName(Head(root.status).tag)])

(* wps.py:589-590: the status is the local name of the first child of      *)
(* wps:Status.  Without such a child find() gives None and None.tag raises *)
(* AttributeError; a child without a namespace makes split('}')[1] raise   *)
(* IndexError.                                                             *)
readStatus(self, root) ==
    IF root.status = <<>> THEN Raised(self, "AttributeError")
    ELSE IF ~SplitHasLocal(Head(root.status).tag) THEN Raised(self, "IndexError")
    ELSE Returned([self EXCEPT !.status = LocalName(Head(root.status).tag)])

(* wps.py:591: Process(None) raises AttributeError at elem.get. *)
readProcess(self, root) ==
    IF root.process = <<>> THEN Raised(self, "AttributeError")
    ELSE Returned([self EXCEPT !.process = <<Process(Head(root.process))>>])

(* statusEl.find(ows:ExceptionReport), wps.py:594. *)
NestedReport(root) == IF root.status = <<>> THEN <<>> ELSE Head(root.status).report

(* Mutant of readNestedReport: the nested report marks the status as a     *)
(* bare report does on a fresh object.                                     *)
readNestedReportAsBare(self, root) ==
    IF NestedReport(root) # <<>>
    THEN parseExceptionReport([self EXCEPT !.status = None], Head(NestedReport(root)))
    ELSE self

(* wps.py:595-596: the report nested in the status element. *)
readNestedReport(self, root) ==
    IF NestedReport(root) # <<>>
    THEN parseExceptionReport(self, Head(NestedReport(root)))
    ELSE self

(* wps.py:600-610: the echoed inputs and the outputs, appended. *)
readLists(self, root) ==
    [self EXCEPT !.dataInputs = @ \o Inputs(root.inputs),
                 !.processOutputs = @ \o Outputs(root.outputs)]

(* _parseExecuteResponse, statement by statement; an exception leaves what *)
(* was assigned before it.                                                 *)
parseExecuteResponse(self, root) ==
    LET st == readStatus(readAttributes(self, root), root)
        pr == readProcess(st.self, root)
    IN  IF st.raised # None THEN st
        ELSE IF pr.raised # None THEN pr
        ELSE Returned(readLists(readNestedReport(pr.self, root), root))

(* parseResponse: dispatch on the root's local name. *)
parseResponse(self, response) ==
    IF ~SplitHasLocal(response.tag) THEN Raised(self, "IndexError")
    ELSE LET rootTag == LocalName(response.tag)
         IN  IF rootTag = "ExecuteResponse" THEN parseExecuteResponse(self, response)
             ELSE IF rootTag = "ExceptionReport"
                  THEN Returned(parseExceptionReport(self, response))
                  ELSE Returned(self)

(***************************************************************************)
(* The status queries (wps.py:464-484).  A query comes to the value it     *)
(* returns, as text, or to the exception it raises.                        *)
(***************************************************************************)
Value(v) == [result |-> v, raised |-> None]
Raises(error) == [result |-> None, raised |-> error]

UnknownStatusError == "Exception: Unknown process execution status"
NotSuccessfulError == "Exception: Execution not successfully completed"

getStatus(self) == Value(self.status)

(* Mutant of isComplete: a status it does not know counts as not complete. *)
isCompleteLenient(self) ==
    IF self.status \in {"ProcessSucceeded", "ProcessFailed", "Exception"}
    THEN Value("True")
    ELSE Value("False")

isComplete(self) ==
    IF self.status = "ProcessSucceeded" \/ self.status = "ProcessFailed"
         \/ self.status = "Exception"
    THEN Value("True")
    ELSE IF self.status = "ProcessStarted" THEN Value("False")
    ELSE IF self.status = "ProcessAccepted" \/ self.status = "ProcessPaused"
    THEN Value("False")
    ELSE Raises(UnknownStatusError)

(* Mutant of isSucceded: a failed job counts as succeeded. *)
isSuccededWhenFinished(self) ==
    IF self.status \in {"ProcessSucceeded", "ProcessFailed"}
    THEN Value("True") ELSE Value("False")

isSucceded(self) ==
    IF self.status = "ProcessSucceeded" THEN Value("True") ELSE Value("False")

(* not self.isComplete(): the exception passes through. *)
isNotComplete(self) ==
    LET c == isComplete(self)
    IN  IF c.raised # None THEN c
        ELSE Value(IF c.result = "True" THEN "False" ELSE "True")

(***************************************************************************)
(* getOutput (wps.py:486-520).  A URL is [path, query]: path the pieces    *)
(* url.split('/') gives, query empty when the URL has no '?', else the one *)
(* list of pieces the query string splits into at '='.  The call comes to  *)
(* the URLs it fetched, the files it wrote (each with the URL whose bytes  *)
(* went in) and the exception that ended it.  down is the set of URLs the  *)
(* transport cannot reach: util.openURL raises for them.                   *)
(***************************************************************************)
TransportError == "TransportError"
NoFile == None

(* The file name taken from the URL when no path is set yet: the text      *)
(* after the first '=' of the query string (wps.py:504), or the last path  *)
(* segment (wps.py:509).                                                   *)
QueryHasValue(url) == Len(Head(url.query)) >= 2
DerivedFile(url) ==
    IF url.query # <<>> THEN Head(url.query)[2] ELSE url.path[Len(url.path)]

Effects(fetched, written, raised) ==
    [fetched |-> fetched, written |-> written, raised |-> raised]

(* The loop over processOutputs from index i on; filepath is the local     *)
(* variable of the method, assigned once and kept for the later outputs.   *)
RECURSIVE getOutputLoop(_, _, _, _, _, _)
getOutputLoop(outputs, i, filepath, down, fetched, written) ==
    IF i > Len(outputs) THEN Effects(fetched, written, None)
    ELSE IF outputs[i].reference = <<>>
    THEN getOutputLoop(outputs, i + 1, filepath, down, fetched, written)
    ELSE LET url == Head(outputs[i].reference)
         IN  IF url \in down THEN Effects(fetched, written, TransportError)
             ELSE IF filepath = NoFile /\ url.query # <<>> /\ ~QueryHasValue(url)
             THEN Effects(Append(fetched, url), written, "IndexError")
             ELSE LET path == IF filepath = NoFile THEN DerivedFile(url) ELSE filepath
                  IN  getOutputLoop(outputs, i + 1, path, down,
                                    Append(fetched, url),
                                    Append(written, [file |-> path, from |-> url]))

getOutput(self, filepath, down) ==
    IF isSucceded(self).result = "True"
    THEN getOutputLoop(self.processOutputs, 1, filepath, down, <<>>, <<>>)
    ELSE Effects(<<>>, <<>>, NotSuccessfulError)

(***************************************************************************)
(* buildRequest (wps.py:344-431).  The request is the tree the code builds *)
(* with etree.Element and etree.SubElement: an element is [tag, attrib,    *)
(* text, children], attrib the set of its <<name, value>> pairs, text None *)
(* when none is set, children in document order.  An input value is        *)
(* [type, text, xml]: type is its Python type, text its characters when it *)
(* is a string, xml the fragment its getXml() builds when it has one.      *)
(***************************************************************************)
WPS_DEFAULT_VERSION == "1.0.0"
(* '%s %s' % (namespaces['wps'], WPS_SCHEMA_LOCATION), wps.py:367 *)
schemaLocation ==
    "http://www.opengis.net/wps/1.0.0 http://schemas.opengis.net/wps/1.0.0/wpsExecute_request.xsd"
XLINK_NAMESPACE == "http://www.w3.org/1999/xlink"
XSI_NAMESPACE == "http://www.w3.org/2001/XMLSchema-instance"

(* The prefixes of the namespaces dictionary that buildRequest uses. *)
namespaces == [prefix \in {"wps", "ows", "xlink", "xsi"} |->
                  IF prefix = "wps" THEN WPS_NAMESPACE
                  ELSE IF prefix = "ows" THEN DEFAULT_OWS_NAMESPACE
                  ELSE IF prefix = "xlink" THEN XLINK_NAMESPACE
                  ELSE XSI_NAMESPACE]

(* util.nspath_eval('prefix:name', namespaces) *)
nspath_eval(prefix, name) == Tag(namespaces[prefix], name)

Element(tag, attrib, text, children) ==
    [tag |-> tag, attrib |-> attrib, text |-> text, children |-> children]

(* isinstance(val, str) *)
IsStr(val) == val.type = "str"

(* val.getXml(): the two shipped feature collections render themselves,    *)
(* the FeatureCollection base class raises NotImplementedError             *)
(* (wps.py:876-877), any other object has no such method.                  *)
getXml(val) ==
    IF val.type \in {"WFSFeatureCollection", "GMLMultiPolygonFeatureCollection"}
    THEN Value(val.xml)
    ELSE IF val.type = "FeatureCollection" THEN Raises("NotImplementedError")
    ELSE Raises("AttributeError")

(* Mutant of InputElement: the rendered fragment is wrapped as literal     *)
(* data is.                                                                *)
InputElementWrapped(key, val) ==
    Element(nspath_eval("wps", "Input"), {}, None,
            <<Element(nspath_eval("ows", "Identifier"), {}, key, <<>>),
              Element(nspath_eval("wps", "Data"), {}, None,
                      IF IsStr(val)
                      THEN <<Element(nspath_eval("wps", "LiteralData"), {}, val.text, <<>>)>>
                      ELSE <<getXml(val).result>>)>>)

(* One wps:Input element (wps.py:380-414): its ows:Identifier, then either *)
(* wps:Data/wps:LiteralData holding the text or the appended fragment.     *)
InputElement(key, val) ==
    Element(nspath_eval("wps", "Input"), {}, None,
            <<Element(nspath_eval("ows", "Identifier"), {}, key, <<>>)>>
            \o (IF IsStr(val)
                THEN <<Element(nspath_eval("wps", "Data"), {}, None,
                               <<Element(nspath_eval("wps", "LiteralData"), {},
                                         val.text, <<>>)>>)>>
                ELSE <<getXml(val).result>>))

(* Mutant of buildInputs: a pair whose name is already there is left out. *)
RECURSIVE buildInputsDistinct(_, _, _)
buildInputsDistinct(inputs, i, built) ==
    IF i > Len(inputs) THEN [elements |-> built, raised |-> None]
    ELSE LET val == inputs[i][2]
         IN  IF ~IsStr(val) /\ getXml(val).raised # None
             THEN [elements |-> built, raised |-> getXml(val).raised]
             ELSE IF \E j \in 1..(i - 1) : inputs[j][1] = inputs[i][1]
             THEN buildInputsDistinct(inputs, i + 1, built)
             ELSE buildInputsDistinct(inputs, i + 1,
                                      Append(built, InputElement(inputs[i][1], val)))

(* Mutant of buildInputs: a value that cannot render itself is left out. *)
RECURSIVE buildInputsSkipping(_, _, _)
buildInputsSkipping(inputs, i, built) ==
    IF i > Len(inputs) THEN [elements |-> built, raised |-> None]
    ELSE LET val == inputs[i][2]
         IN  IF ~IsStr(val) /\ getXml(val).raised # None
             THEN buildInputsSkipping(inputs, i + 1, built)
             ELSE buildInputsSkipping(inputs, i + 1,
                                      Append(built, InputElement(inputs[i][1], val)))

(* The loop over inputs (wps.py:376-414): stops at the first value whose   *)
(* getXml() raises.                                                        *)
RECURSIVE buildInputs(_, _, _)
buildInputs(inputs, i, built) ==
    IF i > Len(inputs) THEN [elements |-> built, raised |-> None]
    ELSE LET val == inputs[i][2]
         IN  IF ~IsStr(val) /\ getXml(val).raised # None
             THEN [elements |-> built, raised |-> getXml(val).raised]
             ELSE buildInputs(inputs, i + 1,
                              Append(built, InputElement(inputs[i][1], val)))

(* The wps:ResponseDocument block for an output identifier. *)
ResponseDocument(output) ==
    Element(nspath_eval("wps", "ResponseForm"), {}, None,
            <<Element(nspath_eval("wps", "ResponseDocument"),
                      {<<"storeExecuteResponse", "true">>, <<"status", "true">>}, None,
                      <<Element(nspath_eval("wps", "Output"),
                                {<<"asReference", "true">>}, None,
                                <<Element(nspath_eval("ows", "Identifier"), {},
                                          output, <<>>)>>)>>)>>)

(* Mutant of ResponseForm: the block is there whatever output is. *)
ResponseFormAlways(output) == <<ResponseDocument(output)>>

(* wps.py:423-429: the wps:ResponseForm child, when an output identifier   *)
(* is given.                                                               *)
ResponseForm(output) ==
    IF output # None THEN <<ResponseDocument(output)>> ELSE <<>>

(* No request: what a call that builds none leaves. *)
NoRequest == Element(Tag(NoNamespace, ""), {}, None, <<>>)

buildRequest(identifier, inputs, output) ==
    LET b == buildInputs(inputs, 1, <<>>)
    IN  IF b.raised # None THEN [root |-> NoRequest, raised |-> b.raised]
        ELSE [root |-> Element(
                         nspath_eval("wps", "Execute"),
                         {<<"service", "WPS">>,
                          <<"version", WPS_DEFAULT_VERSION>>,
                          <<"xmlns:ows", namespaces["ows"]>>,
                          <<"xmlns:xlink", namespaces["xlink"]>>,
                          <<"xsi:schemaLocation", schemaLocation>>},
                         None,
                         <<Element(nspath_eval("ows", "Identifier"), {}, identifier, <<>>),
                           Element(nspath_eval("wps", "DataInputs"), {}, None, b.elements)>>
                         \o ResponseForm(output)),
              raised |-> None]

(***************************************************************************)
(* checkStatus (wps.py:434-461).  response is the inline document the      *)
(* caller passes (empty when it passes none), served what the transport    *)
(* answers for the status location (empty when it raises).  The call comes *)
(* to the object afterwards, the URLs it polled, the documents it handed   *)
(* to parseResponse, whether it slept, and the exception that ended it.    *)
(***************************************************************************)
BadUrlError == "Error: no status location"

Checked(self, polled, parsed, slept, raised) ==
    [self |-> self, polled |-> polled, parsed |-> parsed, slept |-> slept,
     raised |-> raised]

(* Mutant of parseAndSleep: the sleep does not look at the status. *)
parseAndSleepAlways(self, response, polled) ==
    LET r == parseResponse(self, response)
    IN  IF r.raised # None THEN Checked(r.self, polled, <<response>>, FALSE, r.raised)
        ELSE Checked(r.self, polled, <<response>>, TRUE, None)

(* wps.py:456-461: parse, then sleep when isComplete() is False. *)
parseAndSleep(self, response, polled) ==
    LET r == parseResponse(self, response)
        c == isComplete(r.self)
    IN  IF r.raised # None THEN Checked(r.self, polled, <<response>>, FALSE, r.raised)
        ELSE IF c.raised # None THEN Checked(r.self, polled, <<response>>, FALSE, c.raised)
        ELSE Checked(r.self, polled, <<response>>, c.result = "False", None)

(* wps.py:446-447: the url argument replaces the status location. *)
OverrideLocation(self, url) ==
    IF url # None THEN [self EXCEPT !.statusLocation = url] ELSE self

(* Mutant of checkStatus: the url argument replaces the status location    *)
(* before the inline document is looked at.                                *)
checkStatusOverrideFirst(self, url, response, served) ==
    LET s == OverrideLocation(self, url)
    IN  IF response = <<>>
        THEN IF s.statusLocation = None THEN Checked(s, <<>>, <<>>, FALSE, BadUrlError)
             ELSE IF served = <<>>
             THEN Checked(s, <<s.statusLocation>>, <<>>, FALSE, TransportError)
             ELSE parseAndSleep(s, Head(served), <<s.statusLocation>>)
        ELSE parseAndSleep(s, Head(response), <<>>)

(* Mutant of checkStatus: a fetch that fails is tried once more. *)
checkStatusRetry(self, url, response, served) ==
    IF response = <<>>
    THEN LET s == OverrideLocation(self, url)
         IN  IF s.statusLocation = None THEN Checked(s, <<>>, <<>>, FALSE, BadUrlError)
             ELSE IF served = <<>>
             THEN Checked(s, <<s.statusLocation, s.statusLocation>>, <<>>, FALSE,
                          TransportError)
             ELSE parseAndSleep(s, Head(served), <<s.statusLocation>>)
    ELSE parseAndSleep(self, Head(response), <<>>)

checkStatus(self, url, response, served) ==
    IF response = <<>>
    THEN LET s == OverrideLocation(self, url)
         IN  IF s.statusLocation = None THEN Checked(s, <<>>, <<>>, FALSE, BadUrlError)
             ELSE IF served = <<>>
             THEN Checked(s, <<s.statusLocation>>, <<>>, FALSE, TransportError)
             ELSE parseAndSleep(s, Head(served), <<s.statusLocation>>)
    ELSE parseAndSleep(self, Head(response), <<>>)

(***************************************************************************)
(* WebProcessingService.execute (wps.py:126-161).  request is the          *)
(* pre-built request text the caller passes (empty when it passes none),   *)
(* response the pre-built response, served what the transport answers the  *)
(* post with (empty when it raises).  The call comes to the execution it   *)
(* returns (none when it raises), the request it built, the texts it       *)
(* posted, the documents it handed to parseResponse and the exception that *)
(* ended it.                                                               *)
(***************************************************************************)

(* etree.tostring(element): the text of the document. *)
tostring(element) == [text |-> element]

Executed(execution, built, submitted, parsed, raised) ==
    [execution |-> execution, built |-> built, submitted |-> submitted,
     parsed |-> parsed, raised |-> raised]

(* Mutant of execute: the request is posted even when the caller passes   *)
(* the response.                                                           *)
executeSubmitAlways(identifier, inputs, output, request, response, served) ==
    LET b == IF request = <<>> THEN buildRequest(identifier, inputs, output)
             ELSE [root |-> NoRequest, raised |-> None]
        posted == IF request = <<>> THEN tostring(b.root) ELSE Head(request)
        doc == IF response = <<>> THEN Head(served) ELSE Head(response)
        r == parseResponse(WPSExecution, doc)
    IN  IF b.raised # None THEN Executed(<<>>, NoRequest, <<>>, <<>>, b.raised)
        ELSE IF response = <<>> /\ served = <<>>
        THEN Executed(<<>>, b.root, <<posted>>, <<>>, TransportError)
        ELSE IF r.raised # None THEN Executed(<<>>, b.root, <<posted>>, <<doc>>, r.raised)
        ELSE Executed(<<r.self>>, b.root, <<posted>>, <<doc>>, None)

execute(identifier, inputs, output, request, response, served) ==
    LET b == IF request = <<>> THEN buildRequest(identifier, inputs, output)
             ELSE [root |-> NoRequest, raised |-> None]
        posted == IF request = <<>> THEN tostring(b.root) ELSE Head(request)
        submitted == IF response = <<>> THEN <<posted>> ELSE <<>>
        doc == IF response = <<>> THEN Head(served) ELSE Head(response)
        r == parseResponse(WPSExecution, doc)
    IN  IF b.raised # None THEN Executed(<<>>, NoRequest, <<>>, <<>>, b.raised)
        ELSE IF response = <<>> /\ served = <<>>
        THEN Executed(<<>>, b.root, submitted, <<>>, TransportError)
        ELSE IF r.raised # None THEN Executed(<<>>, b.root, submitted, <<doc>>, r.raised)
        ELSE Executed(<<r.self>>, b.root, submitted, <<doc>>, None)

(***************************************************************************)
(* WebProcessingService.processes (wps.py:82, 164-182, 214-218).  Of the   *)
(* service object the model keeps the processes list.  A capabilities      *)
(* document is [offerings]: the wps:ProcessOfferings child, when there is  *)
(* one, with its wps:Process children.  A DescribeProcess response is      *)
(* [description]: its ProcessDescription child, when there is one.         *)
(***************************************************************************)
Parsed(list, result, raised) ==
    [processes |-> list, result |-> result, raised |-> raised]

(* _parseCapabilitiesMetadata (wps.py:214-218): one Process appended per   *)
(* offering; iterating the None that find() returns for a missing          *)
(* ProcessOfferings raises TypeError.                                      *)
parseCapabilitiesMetadata(list, root) ==
    IF root.offerings = <<>> THEN Parsed(list, <<>>, "TypeError")
    ELSE LET offered == Head(root.offerings).children
         IN  Parsed(list \o [i \in 1..Len(offered) |-> Process(offered[i])],
                    <<>>, None)

(* _parseProcessMetadata (wps.py:164-182): Process(None) raises            *)
(* AttributeError when the document has no ProcessDescription; every entry *)
(* with the identifier of the new process is overwritten, and the process  *)
(* is appended when there was none.                                        *)
parseProcessMetadata(list, rootElement) ==
    IF rootElement.description = <<>> THEN Parsed(list, <<>>, "AttributeError")
    ELSE LET new == Process(Head(rootElement.description))
             found == \E n \in 1..Len(list) : list[n].identifier = new.identifier
         IN  IF found
             THEN Parsed([n \in 1..Len(list) |->
                             IF list[n].identifier = new.identifier THEN new
                             ELSE list[n]],
                         <<new>>, None)
             ELSE Parsed(Append(list, new), <<new>>, None)

(***************************************************************************)
(* The documents a server can answer with.                                 *)
(***************************************************************************)
Document(tag, svc, loc, st, proc, ins, outs, children) ==
    [tag |-> tag, serviceInstance |-> svc, statusLocation |-> loc, status |-> st,
     process |-> proc, inputs |-> ins, outputs |-> outs, children |-> children]

NoDocument ==
    Document(Tag(NoNamespace, ""), None, None, <<>>, <<>>, <<>>, <<>>, <<>>)

(* Children of an exception report: two ows:Exception elements, one with   *)
(* everything and one with nothing, and an element that is no Exception.   *)
ExceptionA == [tag |-> Tag(DEFAULT_OWS_NAMESPACE, "Exception"),
               exceptionCode |-> "NoApplicableCode", locator |-> "DATASET_URI",
               exceptionText |-> <<"dataset not found">>]
ExceptionB == [tag |-> Tag(DEFAULT_OWS_NAMESPACE, "Exception"),
               exceptionCode |-> None, locator |-> None, exceptionText |-> <<>>]
NotAnException == [tag |-> Tag(DEFAULT_OWS_NAMESPACE, "Metadata"),
                   exceptionCode |-> None, locator |-> None, exceptionText |-> <<>>]

ReportChildren == {<<NotAnException, ExceptionA>>, <<ExceptionB, ExceptionA>>}

ExceptionReport(ns, children) ==
    Document(Tag(ns, "ExceptionReport"), None, None, <<>>, <<>>, <<>>, <<>>, children)

ExceptionReports ==
    {ExceptionReport(DEFAULT_OWS_NAMESPACE, c) : c \in ReportChildren}

(* The child of wps:Status, with the exception report nested in it. *)
StatusElement(ns, name, children) ==
    [tag |-> Tag(ns, name),
     report |-> IF children = <<>> THEN <<>> ELSE <<[children |-> children]>>]

KnownStatuses == {"ProcessAccepted", "ProcessStarted", "ProcessPaused",
                  "ProcessSucceeded", "ProcessFailed"}
ReportedStatuses == KnownStatuses \cup {"ProcessQueued"}

(* Reference URLs of outputs: one with a query string, one without. *)
QueryUrl == [path |-> <<"cida.usgs.gov", "RetrieveResultServlet">>,
             query |-> <<<<"id", "1318OUTPUT">>>>]
PathUrl == [path |-> <<"rsg.pml.ac.uk", "wpsoutputs", "outputImage.tif">>,
            query |-> <<>>]
ReferenceUrls == {QueryUrl, PathUrl}

(* The Output elements of a response: a wps:Reference child or a wps:Data  *)
(* child, and no child without a namespace.                                *)
ReferenceOutput(id, url) ==
    [identifier |-> id,
     reference |-> <<[href |-> <<url>>, mimeType |-> "text/csv"]>>,
     data |-> <<>>, children |-> <<>>]
InlineOutput(id) ==
    [identifier |-> id, reference |-> <<>>,
     data |-> <<[complexData |-> <<[mimeType |-> "text/plain", text |-> "7504912.9"]>>]>>,
     children |-> <<>>]

OutputLists == {<<>>,
                <<ReferenceOutput("OUTPUT", QueryUrl)>>,
                <<InlineOutput("RESULT"), ReferenceOutput("IMAGE", PathUrl)>>}

EchoedInput(id) == [identifier |-> id, minOccurs |-> <<>>, maxOccurs |-> <<>>,
                    children |-> <<>>]

EchoedProcess == [identifier |-> "gov.usgs.cida.gdp.wps.algorithm.Echo"]

ExecuteResponse(svc, loc, st, proc, ins, outs) ==
    Document(Tag(WPS_NAMESPACE, "ExecuteResponse"), svc, loc, st, proc, ins, outs, <<>>)

(* Well-formed responses: every status; a response without the two root   *)
(* attributes and one with another status location; a finished job with    *)
(* its outputs and the echo of its input; a status with its nested report. *)
(* Malformed ones: no status child, a status child without a namespace, no *)
(* Process element.                                                        *)
Service == "http://wps"
Plain(n) == <<StatusElement(WPS_NAMESPACE, n, <<>>)>>

ExecuteResponses ==
    {ExecuteResponse(Service, "http://wps/status/1", Plain(n), <<EchoedProcess>>,
                     <<>>, <<>>) : n \in ReportedStatuses}
    \cup
    {ExecuteResponse(None, None, Plain("ProcessStarted"), <<EchoedProcess>>,
                     <<>>, <<>>),
     ExecuteResponse(Service, "http://wps/status/2", Plain("ProcessAccepted"),
                     <<EchoedProcess>>, <<>>, <<>>)}
    \cup
    {ExecuteResponse(Service, "http://wps/status/1", Plain("ProcessSucceeded"),
                     <<EchoedProcess>>, <<EchoedInput("DATASET_URI")>>, outs) :
        outs \in OutputLists \ {<<>>}}
    \cup
    {ExecuteResponse(Service, "http://wps/status/1",
                     <<StatusElement(WPS_NAMESPACE, "ProcessFailed", c)>>,
                     <<EchoedProcess>>, <<>>, <<>>) :
        c \in ReportChildren}
    \cup
    {ExecuteResponse(Service, "http://wps/status/2", <<>>,
                     <<EchoedProcess>>, <<>>, <<>>),
     ExecuteResponse(Service, "http://wps/status/2",
                     <<StatusElement(NoNamespace, "ProcessSucceeded", <<>>)>>,
                     <<EchoedProcess>>, <<>>, <<>>),
     ExecuteResponse(Service, "http://wps/status/2",
                     <<StatusElement(WPS_NAMESPACE, "ProcessSucceeded", <<ExceptionA>>)>>,
                     <<>>, <<>>, <<ReferenceOutput("OUTPUT", QueryUrl)>>)}

(* Roots that are neither: another WPS document, and roots without a       *)
(* namespace.                                                              *)
OtherDocuments ==
    {Document(Tag(WPS_NAMESPACE, "Capabilities"), None, None, <<>>, <<>>, <<>>,
              <<>>, <<>>),
     Document(Tag(NoNamespace, "html"), None, None, <<>>, <<>>, <<>>, <<>>, <<>>),
     ExceptionReport(NoNamespace, <<ExceptionA>>)}

Documents == ExecuteResponses \cup ExceptionReports \cup OtherDocuments

(***************************************************************************)
(* The state machine.  last records the call just made: its name, its      *)
(* arguments, what it returned or raised and what it did outside the       *)
(* object (the transport, the file system, the clock).                     *)
(***************************************************************************)
NoElement == [identifier |-> None, children |-> <<>>]

NoCall == [op |-> "__init__", response |-> NoDocument, inline |-> FALSE,
           url |-> None, filepath |-> NoFile, result |-> None, raised |-> None,
           polled |-> <<>>, fetched |-> <<>>, written |-> <<>>, slept |-> FALSE,
           request |-> NoRequest, parsed |-> <<>>,
           identifier |-> None, inputs |-> <<>>, output |-> None,
           prebuilt |-> FALSE, submitted |-> <<>>, returned |-> FALSE,
           element |-> NoElement, built |-> <<>>]

(* The inputs of buildRequest: lists of (name, value) pairs. *)
Literal(text) == [type |-> "str", text |-> text, xml |-> None]
(* A WFSFeatureCollection and the wps:Reference its getXml() builds        *)
(* (wps.py:901-924).                                                       *)
Renderable == [type |-> "WFSFeatureCollection", text |-> None,
               xml |-> Element(nspath_eval("wps", "Reference"),
                               {<<"xlink:href", "http://wfs">>}, None,
                               <<Element(nspath_eval("wps", "Body"), {}, None, <<>>)>>)]
Unrenderable == [type |-> "int", text |-> None, xml |-> None]

(* Two literals; a complex value before a literal; a value that is neither *)
(* in second place; a name given twice.                                    *)
RequestInputs == {<<<<"A", Literal("x")>>, <<"B", Literal("y")>>>>,
                  <<<<"FEATURE_COLLECTION", Renderable>>, <<"A", Literal("x")>>>>,
                  <<<<"A", Literal("x")>>, <<"N", Unrenderable>>>>,
                  <<<<"B", Literal("y")>>, <<"A", Literal("x")>>, <<"B", Literal("y")>>>>}

(* The object takes the fields of self. *)
Becomes(self) ==
    /\ status' = self.status
    /\ statusLocation' = self.statusLocation
    /\ serviceInstance' = self.serviceInstance
    /\ process' = self.process
    /\ errors' = self.errors
    /\ dataInputs' = self.dataInputs
    /\ processOutputs' = self.processOutputs

(* The lists stay within the bounds of the model. *)
Fits(self) ==
    /\ Len(self.errors) <= MaxErrors
    /\ Len(self.processOutputs) <= MaxOutputs

object == <<status, statusLocation, serviceInstance, process, errors,
            dataInputs, processOutputs>>

(* The object after WPSExecution.__init__ (wps.py:326-342). *)
Init ==
    /\ status = WPSExecution.status
    /\ statusLocation = WPSExecution.statusLocation
    /\ serviceInstance = WPSExecution.serviceInstance
    /\ process = WPSExecution.process
    /\ errors = WPSExecution.errors
    /\ dataInputs = WPSExecution.dataInputs
    /\ processOutputs = WPSExecution.processOutputs
    /\ processes = <<>>
    /\ last = NoCall

(* execution.parseResponse(response) *)
ParseResponse ==
    \E response \in Documents :
        \E r \in {parseResponse(Self, response)} :
            /\ Fits(r.self)
            /\ Becomes(r.self)
            /\ UNCHANGED processes
            /\ last' = [NoCall EXCEPT !.op = "parseResponse", !.response = response,
                                      !.raised = r.raised]

(* execution.checkStatus(url, response, sleepSecs): with an inline         *)
(* document, or with the transport answering a document or raising.        *)
CheckStatus ==
    \E url \in {None, "http://wps/status/2"}, inline \in BOOLEAN,
       answer \in {<<>>} \cup {<<d>> : d \in Documents} :
        \E r \in {checkStatus(Self, url, IF inline THEN answer ELSE <<>>, answer)} :
            /\ inline => answer # <<>>
            /\ Fits(r.self)
            /\ Becomes(r.self)
            /\ UNCHANGED processes
            /\ last' = [NoCall EXCEPT !.op = "checkStatus", !.url = url,
                                      !.inline = inline,
                                      !.response = IF answer = <<>> THEN NoDocument
                                                   ELSE Head(answer),
                                      !.raised = r.raised, !.polled = r.polled,
                                      !.parsed = r.parsed, !.slept = r.slept]

(* A query: the object is left alone, the answer is recorded. *)
Query(op, answer) ==
    /\ last' = [NoCall EXCEPT !.op = op, !.result = answer.result,
                              !.raised = answer.raised]
    /\ UNCHANGED <<object, processes>>

GetStatus == Query("getStatus", getStatus(Self))
IsComplete == Query("isComplete", isComplete(Self))
IsSucceded == Query("isSucceded", isSucceded(Self))
IsNotComplete == Query("isNotComplete", isNotComplete(Self))

(* execution.getOutput(filepath) *)
GetOutput ==
    \E filepath \in {NoFile, "result.csv"}, down \in {{}, {PathUrl}} :
        \E e \in {getOutput(Self, filepath, down)} :
            /\ last' = [NoCall EXCEPT !.op = "getOutput", !.filepath = filepath,
                                      !.raised = e.raised, !.fetched = e.fetched,
                                      !.written = e.written]
            /\ UNCHANGED <<object, processes>>

(* execution.buildRequest(identifier, inputs, output) *)
BuildRequest ==
    \E inputs \in RequestInputs, output \in {None, "OUTPUT"} :
        LET b == buildRequest("EchoProcess", inputs, output)
        IN  /\ last' = [NoCall EXCEPT !.op = "buildRequest",
                                      !.identifier = "EchoProcess",
                                      !.inputs = inputs, !.output = output,
                                      !.request = b.root, !.raised = b.raised]
            /\ UNCHANGED <<object, processes>>

Next ==
    \/ ParseResponse
    \/ CheckStatus
    \/ GetStatus
    \/ IsComplete
    \/ IsSucceded
    \/ IsNotComplete
    \/ GetOutput
    \/ BuildRequest

Spec == Init /\ [][Next]_vars

(***************************************************************************)
(* A session of a caller of WebProcessingService.execute: it builds        *)
(* requests, executes processes and keeps the execution the last           *)
(* successful execute() returned, whose outputs it retrieves.              *)
(***************************************************************************)

(* A finished job with two outputs by reference, each at its own URL. *)
TwoReferences ==
    ExecuteResponse(Service, "http://wps/status/1", Plain("ProcessSucceeded"),
                    <<EchoedProcess>>, <<EchoedInput("DATASET_URI")>>,
                    <<ReferenceOutput("OUTPUT", QueryUrl),
                      ReferenceOutput("IMAGE", PathUrl)>>)

(* What the server answers an Execute request with: the job accepted, the  *)
(* job finished, a refusal, and a response without a status.               *)
ExecuteAnswers ==
    {ExecuteResponse(Service, "http://wps/status/1", Plain("ProcessAccepted"),
                     <<EchoedProcess>>, <<>>, <<>>),
     TwoReferences,
     ExceptionReport(DEFAULT_OWS_NAMESPACE, <<ExceptionA>>),
     ExecuteResponse(Service, "http://wps/status/2", <<>>, <<EchoedProcess>>,
                     <<>>, <<>>)}

(* A request document the caller built beforehand. *)
PrebuiltRequest ==
    tostring(buildRequest("EchoProcess", <<<<"A", Literal("x")>>>>, None).root)

(* wps.execute(identifier, inputs, output, request, response): the caller  *)
(* holds the execution it returns; when it raises the caller holds what it *)
(* held before.                                                            *)
Execute ==
    \E inputs \in RequestInputs, output \in {None, "OUTPUT"},
       prebuilt \in BOOLEAN, inline \in BOOLEAN,
       answer \in {<<>>} \cup {<<d>> : d \in ExecuteAnswers} :
        LET e == execute("EchoProcess", inputs, output,
                         IF prebuilt THEN <<PrebuiltRequest>> ELSE <<>>,
                         IF inline THEN answer ELSE <<>>, answer)
        IN  /\ inline => answer # <<>>
            /\ IF e.execution # <<>> THEN Becomes(Head(e.execution))
                                     ELSE UNCHANGED object
            /\ UNCHANGED processes
            /\ last' = [NoCall EXCEPT !.op = "execute",
                                      !.identifier = "EchoProcess",
                                      !.inputs = inputs, !.output = output,
                                      !.prebuilt = prebuilt, !.inline = inline,
                                      !.response = IF answer = <<>> THEN NoDocument
                                                   ELSE Head(answer),
                                      !.request = e.built,
                                      !.submitted = e.submitted,
                                      !.parsed = e.parsed,
                                      !.returned = (e.execution # <<>>),
                                      !.raised = e.raised]

SessionNext ==
    \/ BuildRequest
    \/ Execute
    \/ GetOutput

SessionSpec == Init /\ [][SessionNext]_vars

(***************************************************************************)
(* The data model on its own: Input and Output objects built from the      *)
(* elements of a process description or of a response.                     *)
(***************************************************************************)
Format(mimeType, schema) ==
    [mimeType |-> mimeType, encoding |-> "UTF-8", schema |-> schema]

(* A child without a namespace: <LiteralData>, <ComplexData>,              *)
(* <ComplexOutput>.                                                        *)
LiteralDataElement(name, dataType, allowedValues, defaultValue) ==
    [tag |-> Tag(NoNamespace, name), dataType |-> dataType,
     allowedValues |-> allowedValues, defaultValue |-> defaultValue,
     supported |-> <<>>, default |-> <<>>]
ComplexDataElement(name, supported, default) ==
    [tag |-> Tag(NoNamespace, name), dataType |-> <<>>,
     allowedValues |-> <<>>, defaultValue |-> <<>>,
     supported |-> supported, default |-> default]

(* LiteralData children: none; any value of a type; a list of allowed      *)
(* values with and without a default; no DataType child; a reference       *)
(* without a prefix.                                                       *)
LiteralChildren ==
    {<<>>,
     <<LiteralDataElement("LiteralData", <<<<"xs", "anyURI">>>>, <<>>, <<>>)>>,
     <<LiteralDataElement("LiteralData", <<<<"xs", "string">>>>,
                          <<"COMMA", "TAB">>, <<"COMMA">>)>>,
     <<LiteralDataElement("LiteralData", <<<<"xs", "integer">>>>, <<"1">>, <<>>)>>,
     <<LiteralDataElement("LiteralData", <<>>, <<"1">>, <<>>)>>,
     <<LiteralDataElement("LiteralData", <<<<"string">>>>, <<>>, <<>>)>>}

GmlFormat == Format("text/xml", "http://schemas.opengis.net/gml/2.0.0/feature.xsd")
CsvFormat == Format("text/csv", None)

(* Complex children under either name: none; formats with a default; no    *)
(* format at all.                                                          *)
ComplexChildren ==
    {<<>>,
     <<ComplexDataElement("ComplexData", <<GmlFormat, CsvFormat>>, <<GmlFormat>>)>>,
     <<ComplexDataElement("ComplexData", <<>>, <<>>)>>,
     <<ComplexDataElement("ComplexOutput", <<CsvFormat>>, <<>>)>>}

InputElements ==
    {[identifier |-> "FEATURE_COLLECTION", minOccurs |-> occurs[1],
      maxOccurs |-> occurs[2], children |-> l \o c] :
        occurs \in {<<<<>>, <<>>>>, <<<<0>>, <<1>>>>},
        l \in LiteralChildren, c \in ComplexChildren}

(* wps:Data children: none, one without wps:ComplexData, one with it. *)
DataChildren ==
    {<<>>,
     <<[complexData |-> <<>>]>>,
     <<[complexData |-> <<[mimeType |-> "text/plain", text |-> "7504912.9"]>>]>>}

OutputElements ==
    {[identifier |-> "OUTPUT", reference |-> r, data |-> d, children |-> l \o c] :
        r \in {<<>>} \cup {ReferenceOutput("OUTPUT", u).reference : u \in ReferenceUrls},
        d \in DataChildren,
        l \in {<<>>,
               <<LiteralDataElement("LiteralData", <<<<"xs", "string">>>>,
                                    <<"COMMA", "TAB">>, <<"COMMA">>)>>,
               <<LiteralDataElement("LiteralData", <<<<"xs", "double">>>>, <<>>, <<>>)>>},
        c \in ComplexChildren \ {<<ComplexDataElement("ComplexData", <<>>, <<>>)>>}}

(* Input(inputElement) *)
NewInput ==
    \E inputElement \in InputElements :
        \E error \in {LiteralDataError(inputElement, "LiteralData")} :
            /\ last' = [NoCall EXCEPT !.op = "Input", !.element = inputElement,
                                      !.raised = error,
                                      !.built = IF error = None
                                                THEN <<Input(inputElement)>> ELSE <<>>]
            /\ UNCHANGED <<object, processes>>

(* Output(outputElement) *)
NewOutput ==
    \E outputElement \in OutputElements :
        \E error \in {LiteralDataError(outputElement, "LiteralData")} :
            /\ last' = [NoCall EXCEPT !.op = "Output", !.element = outputElement,
                                      !.raised = error,
                                      !.built = IF error = None
                                                THEN <<Output(outputElement)>> ELSE <<>>]
            /\ UNCHANGED <<object, processes>>

DataModelNext ==
    \/ NewInput
    \/ NewOutput

DataModelSpec == Init /\ [][DataModelNext]_vars

(***************************************************************************)
(* The service object: getcapabilities() and describeprocess() on one      *)
(* WebProcessingService.                                                   *)
(***************************************************************************)
ProcessElement(id) == [identifier |-> id, children |-> <<>>]

(* The capabilities of a server with two processes, and a document without *)
(* wps:ProcessOfferings.                                                   *)
CapabilitiesDocuments ==
    {[offerings |-> <<[children |-> <<ProcessElement("Echo"),
                                      ProcessElement("Buffer")>>]>>],
     [offerings |-> <<>>]}

(* What DescribeProcess is asked for: the two offered processes and one    *)
(* the capabilities do not list.                                           *)
ProcessIdentifiers == {"Echo", "Buffer", "Union"}

(* The answers to DescribeProcess: the description asked for, or a         *)
(* document without one.                                                   *)
Descriptions(identifier) ==
    {[description |-> <<ProcessElement(identifier)>>], [description |-> <<>>]}

(* wps.getcapabilities(xml) *)
GetCapabilities ==
    \E root \in CapabilitiesDocuments :
        \E r \in {parseCapabilitiesMetadata(processes, root)} :
            /\ Len(r.processes) <= MaxProcesses
            /\ processes' = r.processes
            /\ last' = [NoCall EXCEPT !.op = "getcapabilities",
                                      !.raised = r.raised]
            /\ UNCHANGED object

(* wps.describeprocess(identifier, xml) *)
DescribeProcess ==
    \E identifier \in ProcessIdentifiers :
        \E root \in Descriptions(identifier) :
            \E r \in {parseProcessMetadata(processes, root)} :
                /\ Len(r.processes) <= MaxProcesses
                /\ processes' = r.processes
                /\ last' = [NoCall EXCEPT !.op = "describeprocess",
                                          !.identifier = identifier,
                                          !.element = IF root.description = <<>>
                                                      THEN NoElement
                                                      ELSE Head(root.description),
                                          !.returned = (r.result # <<>>),
                                          !.raised = r.raised]
                /\ UNCHANGED object

ServiceNext ==
    \/ GetCapabilities
    \/ DescribeProcess

ServiceSpec == Init /\ [][ServiceNext]_vars

(***************************************************************************)
(* Vocabulary of the properties, read off the record of the last call.     *)
(***************************************************************************)

(* The call handed its document to parseResponse. *)
Parsing(call) ==
    \/ call.op = "parseResponse"
    \/ call.op = "checkStatus" /\ call.raised \notin {BadUrlError, TransportError}

(* parseResponse returned: what checkStatus can still raise afterwards is  *)
(* the unknown-status error of its isComplete().                          *)
ParseReturned(call) == call.raised \in {None, UnknownStatusError}

IsExecuteResponse(doc) ==
    doc.tag.ns # NoNamespace /\ doc.tag.name = "ExecuteResponse"
IsExceptionReport(doc) ==
    doc.tag.ns # NoNamespace /\ doc.tag.name = "ExceptionReport"

TerminalStatuses == {"ProcessSucceeded", "ProcessFailed", "Exception"}
NonTerminalStatuses == {"ProcessAccepted", "ProcessStarted", "ProcessPaused"}

(* The errors a report stands for: one entry per ows:Exception child, in   *)
(* document order, with its code, locator and text.                        *)
ExceptionElements(children) ==
    SelectSeq(children, LAMBDA c : c.tag.ns = DEFAULT_OWS_NAMESPACE
                                   /\ c.tag.name = "Exception")
ExpectedErrors(children) ==
    LET E == ExceptionElements(children)
    IN  [i \in 1..Len(E) |->
            [code |-> E[i].exceptionCode, locator |-> E[i].locator,
             text |-> IF E[i].exceptionText = <<>> THEN ""
                      ELSE E[i].exceptionText[1]]]

(* The status child carries a nested exception report. *)
HasNestedReport(doc) ==
    /\ IsExecuteResponse(doc)
    /\ doc.status # <<>>
    /\ doc.status[1].tag.ns # NoNamespace
    /\ doc.status[1].report # <<>>

(***************************************************************************)
(* The caller that polls: the first response of a submitted job is parsed  *)
(* into the new execution, then the caller runs                            *)
(*     while execution.isComplete() == False: execution.checkStatus()      *)
(* The loop is over when isComplete() returns True, or when isComplete()   *)
(* or checkStatus() raises.  The server is one that finishes: of the polls *)
(* the caller keeps making, one is answered with a response whose status   *)
(* is ProcessSucceeded or ProcessFailed.                                   *)
(***************************************************************************)
HasStatusIn(doc, names) ==
    /\ IsExecuteResponse(doc)
    /\ doc.status # <<>>
    /\ Head(doc.status).tag \in {Tag(WPS_NAMESPACE, n) : n \in names}

FirstResponses ==
    {d \in Documents : HasStatusIn(d, NonTerminalStatuses) /\ d.process # <<>>}
TerminalResponses ==
    {d \in Documents : HasStatusIn(d, {"ProcessSucceeded", "ProcessFailed"})}

(* The loop condition holds: the job was submitted, the last call returned *)
(* and isComplete() returns False.                                         *)
Polling ==
    /\ last.op \in {"parseResponse", "checkStatus"}
    /\ last.raised = None
    /\ isComplete(Self) = Value("False")

(* The first response, parsed into the new execution (wps.py:159). *)
Submit ==
    /\ last.op = "__init__"
    /\ \E first \in FirstResponses :
           \E r \in {parseResponse(Self, first)} :
               /\ Becomes(r.self)
               /\ last' = [NoCall EXCEPT !.op = "parseResponse",
                                         !.response = first,
                                         !.raised = r.raised]
               /\ UNCHANGED processes

(* One turn of the loop: checkStatus() with the transport answering one of *)
(* answers (the empty answer is the transport raising).                    *)
Poll(answers) ==
    /\ Polling
    /\ \E answer \in answers :
           \E r \in {checkStatus(Self, None, <<>>, answer)} :
               /\ Fits(r.self)
               /\ Becomes(r.self)
               /\ last' = [NoCall EXCEPT !.op = "checkStatus",
                                         !.response = IF answer = <<>> THEN NoDocument
                                                      ELSE Head(answer),
                                         !.raised = r.raised, !.polled = r.polled,
                                         !.parsed = r.parsed, !.slept = r.slept]
               /\ UNCHANGED processes

PollFinished == Poll({<<d>> : d \in TerminalResponses})
PollUnfinished == Poll({<<>>} \cup {<<d>> : d \in Documents \ TerminalResponses})

PollingNext ==
    \/ Submit
    \/ PollFinished
    \/ PollUnfinished

PollingSpec ==
    Init /\ [][PollingNext]_vars /\ WF_vars(Submit) /\ WF_vars(PollFinished)

(***************************************************************************)
(* C1: isComplete() returns true exactly for ProcessSucceeded,             *)
(* ProcessFailed and Exception, false exactly for ProcessAccepted,         *)
(* ProcessStarted and ProcessPaused, and raises the unknown-status error   *)
(* for every other status, returning nothing.                              *)
(***************************************************************************)
C1_IsCompleteByStatus ==
    last.op = "isComplete" =>
        /\ (last.result = "True") <=> (status \in TerminalStatuses)
        /\ (last.result = "False") <=> (status \in NonTerminalStatuses)
        /\ (last.raised = UnknownStatusError)
              <=> (status \notin TerminalStatuses \cup NonTerminalStatuses)
        /\ (last.raised # None) => (last.result = None)
        /\ last.raised \in {None, UnknownStatusError}

C1_Witness ==
    /\ last.op = "isComplete"
    /\ status = "ProcessQueued"
    /\ last.raised = UnknownStatusError

(***************************************************************************)
(* C2: on an execution whose status is still unset, isComplete() returns   *)
(* false and isNotComplete() returns true.                                 *)
(***************************************************************************)
C2_UnsetIsNonTerminal ==
    status = None =>
        /\ (last.op = "isComplete") => (last.result = "False" /\ last.raised = None)
        /\ (last.op = "isNotComplete") => (last.result = "True" /\ last.raised = None)

(***************************************************************************)
(* C3: getOutput() proceeds only when the status is ProcessSucceeded; with *)
(* any other status it raises the not-successfully-completed error,        *)
(* fetches nothing, writes nothing and leaves the execution as it was.     *)
(***************************************************************************)
C3_GetOutputOnlyWhenSucceeded ==
    [][last'.op = "getOutput" =>
          /\ (status # "ProcessSucceeded") =>
                 /\ last'.raised = NotSuccessfulError
                 /\ last'.fetched = <<>>
                 /\ last'.written = <<>>
                 /\ UNCHANGED object
          /\ (status = "ProcessSucceeded") => (last'.raised # NotSuccessfulError)]_vars

C3_Witness ==
    /\ last.op = "getOutput"
    /\ status = "ProcessFailed"
    /\ \E i \in 1..Len(processOutputs) : processOutputs[i].reference # <<>>
    /\ last.raised = NotSuccessfulError

(***************************************************************************)
(* C4: after a parse of an ExecuteResponse, processOutputs holds exactly   *)
(* the Output elements of that document, in document order, and nothing    *)
(* from the documents parsed before.                                       *)
(***************************************************************************)
C4_OutputsOfLatestDocument ==
    (Parsing(last) /\ IsExecuteResponse(last.response) /\ ParseReturned(last))
        => processOutputs = Outputs(last.response.outputs)

(***************************************************************************)
(* C5: once a parsed ExecuteResponse has given statusLocation a value, a   *)
(* later parse of a response document leaves statusLocation at that value. *)
(***************************************************************************)
C5_StatusLocationSetOnce ==
    [][(/\ Parsing(last) /\ IsExecuteResponse(last.response)
        /\ statusLocation # None
        /\ statusLocation = last.response.statusLocation
        /\ Parsing(last') /\ last'.url = None)
          => statusLocation' = statusLocation]_vars

(***************************************************************************)
(* C6: parsing an ExceptionReport sets the status to Exception if and only *)
(* if it was unset, leaves a status already set unchanged, and appends to  *)
(* errors one WPSException per Exception element, in document order, with  *)
(* the element's code, locator and text.                                   *)
(***************************************************************************)
C6_ExceptionReportParse ==
    [][(Parsing(last') /\ IsExceptionReport(last'.response)) =>
          /\ status' = IF status = None THEN "Exception" ELSE status
          /\ errors' = errors \o ExpectedErrors(last'.response.children)]_vars

C6_Witness ==
    /\ Parsing(last) /\ IsExceptionReport(last.response)
    /\ status = "Exception"
    /\ last.response.children = <<ExceptionB, ExceptionA>>
    /\ errors = <<[code |-> None, locator |-> None, text |-> ""],
                  [code |-> "NoApplicableCode", locator |-> "DATASET_URI",
                   text |-> "dataset not found"]>>

(***************************************************************************)
(* C7: after a successful parse of an ExecuteResponse the status is the    *)
(* local name of the document's Status child, whatever it was before, and  *)
(* no call that parses no document (buildRequest, getStatus, isComplete,   *)
(* isSucceded, isNotComplete, getOutput, a checkStatus whose fetch fails)  *)
(* changes the status.                                                     *)
(***************************************************************************)
C7_StatusFromDocumentsOnly ==
    [][/\ (~Parsing(last')) => (status' = status)
       /\ (Parsing(last') /\ IsExecuteResponse(last'.response) /\ ParseReturned(last'))
             => (status' = last'.response.status[1].tag.name)]_vars

C7_Witness ==
    /\ Parsing(last) /\ IsExecuteResponse(last.response) /\ ParseReturned(last)
    /\ status = "ProcessAccepted"
    /\ processOutputs # <<>>

(***************************************************************************)
(* C8: parsing an ExecuteResponse without a status child fails with an     *)
(* error that reaches the caller, and the status stays what it was.        *)
(***************************************************************************)
C8_MissingStatusFails ==
    [][(Parsing(last') /\ IsExecuteResponse(last'.response)
        /\ last'.response.status = <<>>)
          => (last'.raised = "AttributeError" /\ status' = status)]_vars

C8_Witness ==
    /\ Parsing(last) /\ IsExecuteResponse(last.response)
    /\ last.response.status = <<>>
    /\ last.raised = "AttributeError"
    /\ status = "ProcessStarted"

(***************************************************************************)
(* C9: parseResponse on a root that is neither ExecuteResponse nor         *)
(* ExceptionReport, with or without a namespace, returns normally and      *)
(* changes nothing.                                                        *)
(***************************************************************************)
C9_UnknownRootIsNoOp ==
    [][(last'.op = "parseResponse"
        /\ last'.response.tag.name \notin {"ExecuteResponse", "ExceptionReport"})
          => (last'.raised = None /\ UNCHANGED object)]_vars

(***************************************************************************)
(* C10: when the status element of an ExecuteResponse holds a nested       *)
(* ExceptionReport, the status after the parse is the one the server       *)
(* reports, never the synthetic Exception, and a parse that returns has    *)
(* appended one WPSException per nested Exception element to errors.       *)
(***************************************************************************)
C10_NestedReportKeepsStatus ==
    [][(Parsing(last') /\ HasNestedReport(last'.response)) =>
          /\ status' = last'.response.status[1].tag.name
          /\ ParseReturned(last') =>
                errors' = errors \o ExpectedErrors(
                                        last'.response.status[1].report[1].children)]_vars

C10_Witness ==
    /\ Parsing(last) /\ HasNestedReport(last.response) /\ ParseReturned(last)
    /\ status = "ProcessFailed"
    /\ errors = ExpectedErrors(last.response.status[1].report[1].children)
    /\ Len(errors) = 2

(***************************************************************************)
(* Reading a request back: the children of an element that have a tag, the *)
(* wps:Input elements under wps:DataInputs, and the values a caller can    *)
(* give.                                                                   *)
(***************************************************************************)
ChildrenNamed(element, ns, name) == findall(element.children, Tag(ns, name))

InputsRead(root) ==
    LET containers == ChildrenNamed(root, WPS_NAMESPACE, "DataInputs")
    IN  IF containers = <<>> THEN <<>>
        ELSE ChildrenNamed(Head(containers), WPS_NAMESPACE, "Input")

(* buildRequest returned a document. *)
BuiltRequest(call) == call.op = "buildRequest" /\ call.raised = None

PlainText(val) == val.type = "str"
RendersItself(val) ==
    val.type \in {"WFSFeatureCollection", "GMLMultiPolygonFeatureCollection"}

(***************************************************************************)
(* C11: the request buildRequest returns has exactly one Identifier child, *)
(* holding the process identifier, and under its one DataInputs child      *)
(* exactly one Input element per (name, value) pair, in the order of the   *)
(* list and with names given twice kept, each with one Identifier holding  *)
(* the name of its pair: read back, the document gives the identifier and  *)
(* the sequence of input names that went in.                               *)
(***************************************************************************)
C11_RequestKeepsIdentifierAndInputs ==
    BuiltRequest(last) =>
        LET root == last.request
            identifiers == ChildrenNamed(root, DEFAULT_OWS_NAMESPACE, "Identifier")
            containers == ChildrenNamed(root, WPS_NAMESPACE, "DataInputs")
            read == InputsRead(root)
        IN  /\ Len(identifiers) = 1
            /\ Head(identifiers).text = last.identifier
            /\ Len(containers) = 1
            /\ Len(Head(containers).children) = Len(read)
            /\ Len(read) = Len(last.inputs)
            /\ \A i \in 1..Len(read) :
                  LET names == ChildrenNamed(read[i], DEFAULT_OWS_NAMESPACE, "Identifier")
                  IN  Len(names) = 1 /\ Head(names).text = last.inputs[i][1]

C11_Witness ==
    /\ BuiltRequest(last)
    /\ Len(last.inputs) = 3
    /\ last.inputs[1][1] = last.inputs[3][1]
    /\ last.inputs[1][1] # last.inputs[2][1]
    /\ Len(InputsRead(last.request)) = 3

(***************************************************************************)
(* C12: in the request buildRequest returns, the Input of a pair whose     *)
(* value is plain text holds, after its Identifier, exactly one Data       *)
(* element with exactly one LiteralData child whose text is the value, and *)
(* no fragment; the Input of a pair whose value is not plain text holds,   *)
(* after its Identifier, exactly the fragment the value renders, and no    *)
(* LiteralData.                                                            *)
(***************************************************************************)
C12_LiteralOrRenderedFragment ==
    BuiltRequest(last) =>
        \A i \in 1..Len(last.inputs) :
            LET val == last.inputs[i][2]
                input == InputsRead(last.request)[i]
                data == ChildrenNamed(input, WPS_NAMESPACE, "Data")
            IN  /\ Len(input.children) = 2
                /\ IF PlainText(val)
                   THEN /\ data = <<input.children[2]>>
                        /\ Len(Head(data).children) = 1
                        /\ Head(Head(data).children).tag = Tag(WPS_NAMESPACE, "LiteralData")
                        /\ Head(Head(data).children).text = val.text
                        /\ Head(Head(data).children).children = <<>>
                   ELSE /\ input.children[2] = val.xml
                        /\ \A j \in 1..Len(data) :
                              ChildrenNamed(data[j], WPS_NAMESPACE, "LiteralData") = <<>>

C12_Witness ==
    /\ BuiltRequest(last)
    /\ Len(last.inputs) = 2
    /\ RendersItself(last.inputs[1][2])
    /\ PlainText(last.inputs[2][2])
    /\ InputsRead(last.request)[1].children[2].tag = Tag(WPS_NAMESPACE, "Reference")

(***************************************************************************)
(* C13: the request buildRequest returns has a ResponseForm child if and   *)
(* only if an output identifier was given; the ResponseForm then holds     *)
(* exactly one ResponseDocument with storeExecuteResponse and status       *)
(* "true", holding exactly one Output with asReference "true" whose one    *)
(* Identifier is the output identifier.  Without an output identifier the  *)
(* document has no ResponseForm.                                           *)
(***************************************************************************)
C13_ResponseFormIffOutput ==
    BuiltRequest(last) =>
        LET forms == ChildrenNamed(last.request, WPS_NAMESPACE, "ResponseForm")
            documents == ChildrenNamed(Head(forms), WPS_NAMESPACE, "ResponseDocument")
            outputs == ChildrenNamed(Head(documents), WPS_NAMESPACE, "Output")
            identifiers == ChildrenNamed(Head(outputs), DEFAULT_OWS_NAMESPACE, "Identifier")
        IN  IF last.output = None THEN forms = <<>>
            ELSE /\ Len(forms) = 1
                 /\ Len(Head(forms).children) = 1 /\ Len(documents) = 1
                 /\ <<"storeExecuteResponse", "true">> \in Head(documents).attrib
                 /\ <<"status", "true">> \in Head(documents).attrib
                 /\ Len(Head(documents).children) = 1 /\ Len(outputs) = 1
                 /\ <<"asReference", "true">> \in Head(outputs).attrib
                 /\ Len(Head(outputs).children) = 1 /\ Len(identifiers) = 1
                 /\ Head(identifiers).text = last.output

C13_Witness ==
    /\ BuiltRequest(last)
    /\ last.output = "OUTPUT"
    /\ Len(last.request.children) = 3
    /\ last.request.children[3].tag = Tag(WPS_NAMESPACE, "ResponseForm")

(***************************************************************************)
(* C14: when some input value is neither plain text nor able to render     *)
(* itself, buildRequest raises and returns no document; execute(), when it *)
(* builds the request from such inputs, raises the same error, posts       *)
(* nothing, parses nothing and returns no execution.                       *)
(***************************************************************************)
HasUnusableInput(call) ==
    \E i \in 1..Len(call.inputs) :
        ~PlainText(call.inputs[i][2]) /\ ~RendersItself(call.inputs[i][2])

C14_UnusableInputFails ==
    /\ (last.op = "buildRequest" /\ HasUnusableInput(last)) =>
          /\ last.raised = "AttributeError"
          /\ last.request = NoRequest
    /\ (last.op = "execute" /\ ~last.prebuilt /\ HasUnusableInput(last)) =>
          /\ last.raised = "AttributeError"
          /\ last.submitted = <<>>
          /\ last.parsed = <<>>
          /\ ~last.returned

C14_Witness ==
    /\ last.op = "execute" /\ ~last.prebuilt /\ ~last.inline
    /\ HasUnusableInput(last)
    /\ last.response = TwoReferences
    /\ last.raised = "AttributeError"

(***************************************************************************)
(* C15: checkStatus() called with an inline response polls no URL and      *)
(* hands exactly that document to the parser: the execution becomes what   *)
(* parsing the document makes of the execution as it was before the call,  *)
(* whatever url argument came with it, so the url argument is not written  *)
(* to statusLocation.                                                      *)
(***************************************************************************)
C15_InlineResponseNoTransport ==
    [][(last'.op = "checkStatus" /\ last'.inline) =>
          /\ last'.polled = <<>>
          /\ last'.parsed = <<last'.response>>
          /\ \E r \in {parseResponse(Self, last'.response)} :
                /\ status' = r.self.status
                /\ statusLocation' = r.self.statusLocation
                /\ serviceInstance' = r.self.serviceInstance
                /\ process' = r.self.process
                /\ errors' = r.self.errors
                /\ dataInputs' = r.self.dataInputs
                /\ processOutputs' = r.self.processOutputs
                /\ (r.raised # None) => (last'.raised = r.raised)]_vars

C15_Witness ==
    /\ last.op = "checkStatus" /\ last.inline
    /\ last.url = "http://wps/status/2"
    /\ IsExceptionReport(last.response)
    /\ last.raised = None
    /\ statusLocation = "http://wps/status/1"

(***************************************************************************)
(* C16: a checkStatus() call sleeps only when it has handed a document to  *)
(* the parser, the parse has returned and the status it left is            *)
(* ProcessAccepted, ProcessStarted or ProcessPaused; a call that leaves    *)
(* the status at ProcessSucceeded, ProcessFailed or Exception returns      *)
(* without sleeping.                                                       *)
(***************************************************************************)
C16_SleepOnlyWhenNotComplete ==
    last.op = "checkStatus" =>
        /\ last.slept => /\ last.parsed # <<>>
                         /\ last.raised = None
                         /\ status \in NonTerminalStatuses
        /\ (status \in TerminalStatuses) => ~last.slept

C16_Witness ==
    /\ last.op = "checkStatus" /\ ~last.inline
    /\ last.polled # <<>>
    /\ last.slept
    /\ status = "ProcessPaused"

(***************************************************************************)
(* C17: a checkStatus() call polls at most one URL and hands at most one   *)
(* document to the parser; when the transport raises, the call has polled  *)
(* exactly once, parsed nothing, not slept, and the transport's error is   *)
(* what the caller gets.                                                   *)
(***************************************************************************)
C17_OneFetchOneParse ==
    last.op = "checkStatus" =>
        /\ Len(last.polled) <= 1
        /\ Len(last.parsed) <= 1
        /\ (~last.inline /\ last.response = NoDocument /\ last.polled # <<>>) =>
              /\ Len(last.polled) = 1
              /\ last.parsed = <<>>
              /\ ~last.slept
              /\ last.raised = TransportError

C17_Witness ==
    /\ last.op = "checkStatus"
    /\ last.raised = TransportError
    /\ last.polled = <<"http://wps/status/1">>
    /\ status = "ProcessStarted"

(***************************************************************************)
(* C18: a getOutput() that returns has fetched the URL of every output     *)
(* that carries a reference, in order, and written each to its own file:   *)
(* without a target path the name derived from that output's own URL, with *)
(* a target path that path.                                                *)
(***************************************************************************)
ReferencedUrls(outputs) ==
    LET referenced == SelectSeq(outputs, LAMBDA o : o.reference # <<>>)
    IN  [i \in 1..Len(referenced) |-> Head(referenced[i].reference)]

C18_EachOutputToItsOwnFile ==
    (last.op = "getOutput" /\ last.raised = None) =>
        /\ last.fetched = ReferencedUrls(processOutputs)
        /\ Len(last.written) = Len(last.fetched)
        /\ \A i \in 1..Len(last.written) :
              /\ last.written[i].from = last.fetched[i]
              /\ last.written[i].file = IF last.filepath = NoFile
                                        THEN DerivedFile(last.fetched[i])
                                        ELSE last.filepath

(***************************************************************************)
(* C19: an Output built from an Output element has a reference and no      *)
(* data, or data and no reference, or neither; never both, whichever of    *)
(* the Reference and Data/ComplexData children the element has.            *)
(***************************************************************************)
C19_ReferenceOrDataNotBoth ==
    (last.op = "Output" /\ last.built # <<>>) =>
        ~(Head(last.built).reference # <<>> /\ Head(last.built).data # None)

(***************************************************************************)
(* C20: an Input or Output built from an element has a dataType that is    *)
(* "ComplexData" or a primitive type tag; its allowedValues are non-empty  *)
(* only when the dataType is a primitive tag and its supportedValues only  *)
(* when the dataType is "ComplexData", whichever of the LiteralData and    *)
(* ComplexData/ComplexOutput children the element has.                     *)
(***************************************************************************)
PrimitiveTags == {"string", "anyURI", "integer", "long", "float", "double", "boolean"}

C20_ValuesMatchDataType ==
    (last.op \in {"Input", "Output"} /\ last.built # <<>>) =>
        /\ Head(last.built).dataType \in PrimitiveTags \cup {"ComplexData"}
        /\ (Head(last.built).allowedValues # <<>>) =>
              (Head(last.built).dataType \in PrimitiveTags)
        /\ (Head(last.built).supportedValues # <<>>) =>
              (Head(last.built).dataType = "ComplexData")

(***************************************************************************)
(* C21: execute() builds a request from identifier, inputs and output only *)
(* when the caller passes no request, posts the request to the transport   *)
(* only when the caller passes no response, and whenever it does not fail  *)
(* it has parsed exactly one document into a new WPSExecution, which it    *)
(* returns: the caller then holds what that one parse makes of a fresh     *)
(* execution, whatever it held before.                                     *)
(***************************************************************************)
C21_ExecuteBuildsSubmitsParses ==
    [][last'.op = "execute" =>
          /\ (last'.request # NoRequest) => ~last'.prebuilt
          /\ (last'.submitted # <<>>) => ~last'.inline
          /\ (last'.raised = None) =>
                /\ ~last'.prebuilt => last'.request # NoRequest
                /\ Len(last'.submitted) = (IF last'.inline THEN 0 ELSE 1)
                /\ Len(last'.parsed) = 1
                /\ last'.returned
                /\ \E r \in {parseResponse(WPSExecution, last'.parsed[1])} :
                      /\ r.raised = None
                      /\ status' = r.self.status
                      /\ statusLocation' = r.self.statusLocation
                      /\ serviceInstance' = r.self.serviceInstance
                      /\ process' = r.self.process
                      /\ errors' = r.self.errors
                      /\ dataInputs' = r.self.dataInputs
                      /\ processOutputs' = r.self.processOutputs]_vars

(* A call with both a request and a response of the caller's returned the  *)
(* execution of a finished job with its two outputs.                       *)
C21_Witness ==
    /\ last.op = "execute"
    /\ last.prebuilt
    /\ last.inline
    /\ last.raised = None
    /\ last.returned
    /\ last.request = NoRequest
    /\ last.submitted = <<>>
    /\ last.parsed = <<TwoReferences>>
    /\ Len(processOutputs) = 2

(***************************************************************************)
(* C22: process identifiers are unique within a service object.  After any *)
(* sequence of getcapabilities() and describeprocess() calls the processes *)
(* list holds at most one Process per identifier; a describeprocess() that *)
(* returns a process whose identifier is in the list replaces that entry   *)
(* in place and leaves the length alone, one that returns a new identifier *)
(* appends exactly one entry.                                              *)
(***************************************************************************)
HasProcess(list, identifier) ==
    \E n \in 1..Len(list) : list[n].identifier = identifier

C22_ProcessIdentifiersUnique ==
    [][/\ \A i, j \in 1..Len(processes') :
              (processes'[i].identifier = processes'[j].identifier) => (i = j)
       /\ (last'.op = "describeprocess" /\ last'.raised = None) =>
              IF HasProcess(processes, last'.element.identifier)
              THEN /\ Len(processes') = Len(processes)
                   /\ \A n \in 1..Len(processes) :
                          processes'[n] =
                              IF processes[n].identifier = last'.element.identifier
                              THEN Process(last'.element) ELSE processes[n]
              ELSE processes' = Append(processes, Process(last'.element))]_vars

(***************************************************************************)
(* C23: dataInputs is the echo of what was submitted.  After a parse of an *)
(* ExecuteResponse that echoes inputs, whatever was parsed before on the   *)
(* same WPSExecution, dataInputs holds each Input element of that echo     *)
(* once, in document order: polling the same job again does not make it    *)
(* longer than the echoed list of one document.                            *)
(***************************************************************************)
C23_DataInputsAreTheEcho ==
    (/\ Parsing(last)
     /\ IsExecuteResponse(last.response)
     /\ ParseReturned(last)
     /\ last.response.inputs # <<>>)
        => dataInputs = Inputs(last.response.inputs)

(***************************************************************************)
(* C25: a parse that fails leaves the job as it was.  When parseResponse,  *)
(* called directly or through checkStatus, fails on an ExecuteResponse     *)
(* without a status child, status, statusLocation, serviceInstance,        *)
(* process, errors, dataInputs and processOutputs all have the values they *)
(* had before the call.                                                    *)
(***************************************************************************)
C25_FailedParseChangesNothing ==
    [][(/\ Parsing(last')
        /\ IsExecuteResponse(last'.response)
        /\ last'.response.status = <<>>
        /\ last'.raised = "AttributeError")
          => UNCHANGED object]_vars

(***************************************************************************)
(* C24: polling terminates when the server does.  The caller repeats       *)
(* checkStatus() while isComplete() is false, starting from an execution   *)
(* whose first response was an ExecuteResponse with a non-terminal status. *)
(* After a poll answered with an ExecuteResponse whose status is           *)
(* ProcessSucceeded or ProcessFailed, isComplete() is true and the loop is *)
(* over; a poll answered with a bare ExceptionReport while the status is   *)
(* set does not make isComplete() true, so the loop goes on; and with a    *)
(* server that eventually gives such a final answer, a loop that is        *)
(* running comes to its end.                                               *)
(***************************************************************************)
TerminalAnswered ==
    /\ last.op = "checkStatus"
    /\ Len(last.parsed) = 1
    /\ last.parsed[1] \in TerminalResponses

BareReportAnswered ==
    /\ last.op = "checkStatus"
    /\ Len(last.parsed) = 1
    /\ IsExceptionReport(last.parsed[1])

LoopEnded ==
    /\ last.op \in {"parseResponse", "checkStatus"}
    /\ ~Polling

C24_PollingTerminates ==
    /\ [](TerminalAnswered => (isComplete(Self) = Value("True") /\ LoopEnded))
    /\ [][(Polling /\ BareReportAnswered')
            => (isComplete(Self)' = Value("False") /\ Polling')]_vars
    /\ Polling ~> LoopEnded

(* A final answer ends a loop in which an earlier poll had brought errors. *)
C24_Witness ==
    /\ TerminalAnswered
    /\ ~HasNestedReport(last.parsed[1])
    /\ status \in {"ProcessSucceeded", "ProcessFailed"}
    /\ errors # <<>>
    /\ isComplete(Self) = Value("True")

=============================================================================
